---- MODULE Spec2Model ----
(***************************************************************************)
(* SingleThumbnailEditor (src/unnamed/part_001) as a state machine: the    *)
(* mount effect, its cleanup, the 200 ms initialisation timer and the      *)
(* completion handlers of the image loads it starts, acting on fabric      *)
(* canvases whose object lists hold references to heap objects.            *)
(*                                                                         *)
(* Numbers are exact rationals <<numerator, denominator>> in lowest terms  *)
(* with a positive denominator.  An optional value of the descriptor is a  *)
(* set: {} when the field is absent (undefined), {v} when it is supplied.  *)
(***************************************************************************)
EXTENDS Integers, Sequences, FiniteSets, TLC

----------------------------------------------------------------------------
(* Arithmetic of JavaScript numbers, as exact rationals.                   *)

RECURSIVE GCD(_, _)
GCD(a, b) == IF b = 0 THEN a ELSE GCD(b, a % b)

Abs(x) == IF x < 0 THEN -x ELSE x

Norm(n, d) ==
  LET s == IF d < 0 THEN -1 ELSE 1
      g == GCD(Abs(n), Abs(d))
  IN  <<(s * n) \div g, (s * d) \div g>>

R(n) == <<n, 1>>

Frac(n, d) == Norm(n, d)

RAdd(a, b) == Norm(a[1] * b[2] + b[1] * a[2], a[2] * b[2])

RSub(a, b) == Norm(a[1] * b[2] - b[1] * a[2], a[2] * b[2])

RMul(a, b) == Norm(a[1] * b[1], a[2] * b[2])

RDiv(a, b) == Norm(a[1] * b[2], a[2] * b[1])

RLt(a, b) == a[1] * b[2] < b[1] * a[2]

RMin(a, b) == IF RLt(b, a) THEN b ELSE a

RMax(a, b) == IF RLt(a, b) THEN b ELSE a

----------------------------------------------------------------------------
(* Optional values and the two defaulting operators of the source.         *)

Undef == {}

Some(v) == {v}

Val(o) == CHOOSE v \in o : TRUE

\* a || b on numbers: b when a is undefined or 0
OrNum(o, b) == IF o = Undef \/ o = Some(R(0)) THEN b ELSE Val(o)

\* a || b on strings: b when a is undefined or ""
OrStr(o, b) == IF o = Undef \/ o = Some("") THEN b ELSE Val(o)

\* a ?? b: b only when a is undefined
Nullish(o, b) == IF o = Undef THEN b ELSE Val(o)

\* truthiness of an optional string (if (initialContent.logoUrl) ...)
TruthyStr(o) == o # Undef /\ o # Some("")

\* truthiness of an optional boolean flag
TruthyFlag(o) == o = Some(TRUE)

----------------------------------------------------------------------------
(* Program constants.                                                      *)

THUMBNAIL_WIDTH == 1280

THUMBNAIL_HEIGHT == 720

----------------------------------------------------------------------------
(* Content descriptors (interface InitialContent).                         *)

\* a text entry that supplies nothing but its content
TextEntry(content) ==
  [content |-> content, fontSize |-> Undef, fontFamily |-> Undef,
   color |-> Undef, top |-> Undef, left |-> Undef, angle |-> Undef,
   textAlign |-> Undef, originX |-> Undef, fontWeight |-> Undef,
   stroke |-> Undef, strokeWidth |-> Undef, width |-> Undef]

\* every attribute supplied, none of them 0 or ""
TextFull ==
  [content |-> "Full", fontSize |-> Some(R(100)), fontFamily |-> Some("Impact"),
   color |-> Some("#FF0000"), top |-> Some(R(480)), left |-> Some(R(300)),
   angle |-> Some(R(15)), textAlign |-> Some("left"), originX |-> Some("left"),
   fontWeight |-> Some("normal"), stroke |-> Some("#00FF00"),
   strokeWidth |-> Some(R(5)), width |-> Some(R(800))]

\* the numeric attributes supplied as 0
TextZero ==
  [TextEntry("Zero") EXCEPT !.fontSize = Some(R(0)), !.top = Some(R(0)),
     !.left = Some(R(0)), !.angle = Some(R(0)), !.strokeWidth = Some(R(0)),
     !.width = Some(R(0))]

\* a descriptor that supplies nothing
Descriptor ==
  [texts |-> Undef, logoUrl |-> Undef, logoUrls |-> Undef, logoBorder |-> Undef,
   backgroundColor |-> Undef, logoSizeMultiplier |-> Undef, logoTop |-> Undef,
   youtubeLogoUrl |-> Undef, showArrow |-> Undef,
   youtubeLogoSizeMultiplier |-> Undef, youtubeLogoTop |-> Undef,
   backgroundImageUrl |-> Undef, showNineBall |-> Undef, nineBallSize |-> Undef]

\* single logo with an explicit logoTop, background image, nine-ball after the logo
DSingle ==
  [Descriptor EXCEPT !.texts = Some(<<TextFull, TextEntry("Bare")>>),
     !.logoUrl = Some("/fromOwen.png"), !.logoTop = Some(R(50)),
     !.logoSizeMultiplier = Some(Frac(3, 2)), !.backgroundColor = Some("#0066CC"),
     !.backgroundImageUrl = Some("/dark-purple-pattern.svg"),
     !.showNineBall = Some(TRUE)]

\* two logos side by side over a background image
DMulti ==
  [Descriptor EXCEPT !.texts = Some(<<TextEntry("Bare")>>),
     !.logoUrls = Some(<<"/barako.png", "/APA.png">>), !.logoBorder = Some(TRUE),
     !.backgroundImageUrl = Some("/dark-purple-pattern.svg")]

\* three logos side by side, scaled by a multiplier
DThree ==
  [Descriptor EXCEPT !.texts = Some(<<TextFull>>),
     !.logoUrls = Some(<<"/PBS.png", "/fromOwen.png", "/APA.png">>),
     !.logoSizeMultiplier = Some(Frac(1, 2))]

\* secondary logo with arrow, nine-ball with no logo to wait for
DYoutube ==
  [Descriptor EXCEPT !.texts = Some(<<TextEntry("Bare"), TextFull>>),
     !.youtubeLogoUrl = Some("/youtube-logo.svg"), !.showArrow = Some(TRUE),
     !.youtubeLogoTop = Some(R(50)), !.showNineBall = Some(TRUE),
     !.nineBallSize = Some(R(100)),
     !.backgroundImageUrl = Some("/dark-purple-pattern.svg")]

\* single logo placed above a first text entry that supplies its top
DAboveText ==
  [Descriptor EXCEPT !.texts = Some(<<TextFull, TextZero>>),
     !.logoUrl = Some("/barako.png")]

\* single logo placed above a first text entry that gives no top
DAboveBare ==
  [Descriptor EXCEPT !.texts = Some(<<TextEntry("Bare")>>),
     !.logoUrl = Some("/barako.png"), !.logoBorder = Some(TRUE)]

\* single logo above a first text entry whose top is 0
DAboveZero ==
  [Descriptor EXCEPT !.texts = Some(<<TextZero, TextFull>>),
     !.logoUrl = Some("/barako.png")]

\* single logo with logoTop 0, texts present
DLogoTopZero ==
  [Descriptor EXCEPT !.texts = Some(<<TextFull>>),
     !.logoUrl = Some("/barako.png"), !.logoTop = Some(R(0)),
     !.showNineBall = Some(TRUE)]

\* single logo, no texts and no logoTop
DLogoOnly == [Descriptor EXCEPT !.logoUrl = Some("/barako.png")]

Descriptors ==
  {DSingle, DMulti, DThree, DYoutube, DAboveText, DAboveBare, DAboveZero,
   DLogoTopZero, DLogoOnly}

\* the URLs a descriptor names
Range(seq) == {seq[i] : i \in DOMAIN seq}

UrlsOf(d) ==
  d.logoUrl \cup d.youtubeLogoUrl \cup d.backgroundImageUrl
    \cup (IF d.logoUrls = Undef THEN {} ELSE Range(Val(d.logoUrls)))

\* every URL of the descriptors
AllUrls == UNION {UrlsOf(d) : d \in Descriptors}

\* the image files served, as natural sizes <<width, height>>: one set of
\* files with wide logos and one with tall and square ones
WideFiles ==
  [u \in AllUrls |->
     IF u = "/dark-purple-pattern.svg" THEN <<1920, 1200>>
     ELSE IF u = "/APA.png" THEN <<300, 300>>
     ELSE IF u = "/PBS.png" THEN <<500, 400>>
     ELSE <<400, 200>>]

TallFiles ==
  [u \in AllUrls |->
     IF u = "/dark-purple-pattern.svg" THEN <<2560, 1080>>
     ELSE IF u = "/APA.png" THEN <<400, 100>>
     ELSE IF u = "/PBS.png" THEN <<200, 200>>
     ELSE <<150, 300>>]

ImageFiles == {WideFiles, TallFiles}

----------------------------------------------------------------------------
(* State.                                                                  *)

VARIABLES
  initialContent,   \* the initialContent prop: {} or {descriptor}
  images,           \* the image files served: URL -> <<width, height>>
  phase,            \* "initial", "mounted" or "unmounted"
  fabricCanvasRef,  \* fabricCanvasRef.current: 0 (null) or a canvas
  initializedRef,   \* initializedRef.current
  canvas,           \* the fabric canvases created so far, by number
  timers,           \* the pending 200 ms initialisation timers, oldest first
  closure,          \* per fired timer: backgroundImageRef, loadedLogos, logoImages
  loads,            \* the Image.fromURL promises not yet settled
  heap,             \* the fabric objects created so far, by identity
  component,        \* "SingleThumbnailEditor" or the legacy "ThumbnailEditor"
  canvasId,         \* the canvasId prop: the number of the editor's tab
  isLoaded,         \* the isLoaded state: it enables the buttons
  text,             \* the text input
  fontSize,         \* the font size input
  fontFamily,       \* the font select
  textColor,        \* the colour input
  style,            \* the CSS size of the canvas element: {} or {<<w, h>>}
  resizeTimers,     \* the canvases whose 100 ms handleResize timer is pending
  uploads,          \* the user's file reads and image loads in flight
  lastDownload,     \* the last file handed to the browser: {} or {file}
  nextUser,         \* how many objects the user's operations have created
  activeTab,        \* the activeTab state of TabbedThumbnailEditor
  editors,          \* the editors of the tabs: canvases, object lists, selection
  day,              \* today.getDate() at the render of the tabs
  formattedDate     \* the date text of tab 5: {} or {<<n, suffix>>}

\* what the mount effect and the initialisation never write
\* the state of TabbedThumbnailEditor
tabVars == <<activeTab, editors, day, formattedDate>>

uiVars ==
  <<component, canvasId, text, fontSize, fontFamily, textColor, style, uploads,
    lastDownload, nextUser, tabVars>>

\* what the initialisation timer and the image loads never write
editVars == <<uiVars, isLoaded, resizeTimers>>

vars ==
  <<initialContent, images, phase, fabricCanvasRef, initializedRef, canvas,
    timers, closure, loads, heap, editVars>>

\* how many times the effect may run in one behaviour
MaxMounts == 2

----------------------------------------------------------------------------
(* The fabric library: objects and the canvas object list.                 *)

\* a fabric object with the library's defaults
FabricObject(type) ==
  [type |-> type, left |-> R(0), top |-> R(0), originX |-> "left",
   originY |-> "top", width |-> R(0), height |-> R(0), scale |-> R(1),
   radius |-> R(0), angle |-> R(0), fill |-> "", stroke |-> "",
   strokeWidth |-> R(0), selectable |-> TRUE, evented |-> TRUE, text |-> "",
   fontSize |-> R(0), fontFamily |-> "", fontWeight |-> "", textAlign |-> ""]

\* the image Image.fromURL resolves with
LoadedImage(url) ==
  [FabricObject("image") EXCEPT !.width = R(images[url][1]),
                                !.height = R(images[url][2])]

\* canvas.add(obj)
add(objects, id) == Append(objects, id)

RemoveFromArray(objects, id) == SelectSeq(objects, LAMBDA o : o # id)

\* canvas.sendObjectToBack(obj)
sendObjectToBack(objects, id) ==
  IF objects # <<>> /\ Head(objects) = id THEN objects
  ELSE <<id>> \o RemoveFromArray(objects, id)

\* canvas.bringObjectToFront(obj)
bringObjectToFront(objects, id) ==
  IF objects # <<>> /\ objects[Len(objects)] = id THEN objects
  ELSE Append(RemoveFromArray(objects, id), id)

\* new Canvas(element, {width, height, backgroundColor})
NewCanvas(bgColor) ==
  [objects |-> <<>>, disposed |-> FALSE, backgroundColor |-> bgColor,
   width |-> THUMBNAIL_WIDTH, height |-> THUMBNAIL_HEIGHT, active |-> Undef]

\* canvas.dispose()
dispose(c) ==
  [c EXCEPT !.disposed = TRUE, !.objects = <<>>, !.active = Undef]

----------------------------------------------------------------------------
(* The mount effect and its cleanup.                                       *)

\* the state of a component before its first effect
InitialState ==
  /\ phase = "initial"
  /\ fabricCanvasRef = 0
  /\ initializedRef = FALSE
  /\ canvas = <<>>
  /\ timers = <<>>
  /\ closure = <<>>
  /\ loads = {}
  /\ heap = <<>>
  /\ isLoaded = FALSE
  /\ text = ""
  /\ fontSize = 60
  /\ fontFamily = "Arial"
  /\ textColor = "#FFFFFF"
  /\ style = Undef
  /\ resizeTimers = {}
  /\ uploads = {}
  /\ lastDownload = Undef
  /\ nextUser = 0

\* one editor on its own: no tab has rendered
NoTabs ==
  /\ activeTab = 1
  /\ editors = <<>>
  /\ day = 1
  /\ formattedDate = Undef

\* a SingleThumbnailEditor with any initial content of the tabs
Init ==
  /\ component = "SingleThumbnailEditor"
  /\ canvasId = 1
  /\ initialContent \in {Undef} \cup {Some(d) : d \in Descriptors}
  /\ images \in ImageFiles
  /\ InitialState
  /\ NoTabs

\* the body of the effect, run on the canvases cs with guard flag inited
Effect(cs, inited) ==
  LET bgColor == IF component = "ThumbnailEditor" THEN "#000000"
                 ELSE IF initialContent = Undef THEN "#FFFFFF"
                 ELSE OrStr(Val(initialContent).backgroundColor, "#FFFFFF")
      id == Len(cs) + 1
  IN  /\ canvas' = Append(cs, NewCanvas(bgColor))
      /\ fabricCanvasRef' = id
      /\ resizeTimers' = resizeTimers \cup {id}
      /\ isLoaded' = (isLoaded \/ component = "ThumbnailEditor")
      /\ IF initialContent # Undef /\ ~inited
           THEN /\ initializedRef' = TRUE
                /\ timers' = Append(timers, id)
           ELSE /\ initializedRef' = inited
                /\ timers' = timers

\* the canvases after the cleanup of the effect that created the last one
Cleanup(cs) == [cs EXCEPT ![Len(cs)] = dispose(cs[Len(cs)])]

\* first mount of the editor
Mount ==
  /\ phase = "initial"
  /\ phase' = "mounted"
  /\ Effect(canvas, initializedRef)
  /\ UNCHANGED <<uiVars, initialContent, images, closure, loads, heap>>

\* the effect re-runs on the same component (canvasId changed, or the
\* development double invocation): cleanup, then the effect, in one commit
Remount ==
  /\ phase = "mounted"
  /\ Len(canvas) < MaxMounts
  /\ Effect(Cleanup(canvas), FALSE)
  /\ UNCHANGED <<uiVars, initialContent, images, phase, closure, loads, heap>>

\* the editor unmounts for good
Unmount ==
  /\ phase = "mounted"
  /\ phase' = "unmounted"
  /\ canvas' = Cleanup(canvas)
  /\ initializedRef' = FALSE
  /\ UNCHANGED <<editVars, initialContent, images, fabricCanvasRef, timers,
                 closure, loads, heap>>

----------------------------------------------------------------------------
(* The 200 ms initialisation timer.                                        *)

\* new Textbox(textConfig.content, {...})
Textbox(textConfig) ==
  [FabricObject("textbox") EXCEPT
     !.text = textConfig.content,
     !.left = Nullish(textConfig.left, RSub(Frac(THUMBNAIL_WIDTH, 2), R(20))),
     !.top = OrNum(textConfig.top, Frac(THUMBNAIL_HEIGHT, 2)),
     !.fontSize = OrNum(textConfig.fontSize, R(60)),
     !.fontFamily = OrStr(textConfig.fontFamily, "Arial"),
     !.fill = OrStr(textConfig.color, "#FFFFFF"),
     !.fontWeight = OrStr(textConfig.fontWeight, "bold"),
     !.stroke = OrStr(textConfig.stroke, "#000000"),
     !.strokeWidth = Nullish(textConfig.strokeWidth, R(3)),
     !.textAlign = OrStr(textConfig.textAlign, "center"),
     !.originX = OrStr(textConfig.originX, "center"),
     !.originY = "center",
     !.width = OrNum(textConfig.width, RMul(R(THUMBNAIL_WIDTH), Frac(4, 5))),
     !.angle = OrNum(textConfig.angle, R(0))]

\* the text entries of a descriptor (none when texts is absent)
TextsOf(d) == IF d.texts = Undef THEN <<>> ELSE Val(d.texts)

\* the logoUrls of a descriptor when the multi-logo branch is taken
LogoUrlsOf(d) == IF d.logoUrls = Undef THEN <<>> ELSE Val(d.logoUrls)

\* identities of the objects one run of the timer creates
TextId(g, i) == <<g, "text", i>>

BgId(g) == <<g, "bg", 0>>

LogoId(g, i) == <<g, "logo", i>>

YoutubeId(g) == <<g, "youtube", 0>>

ArrowId(g) == <<g, "arrow", 0>>

BallId(g) == <<g, "ball", 0>>

NumberTextId(g) == <<g, "number", 0>>

\* initialContent.texts.forEach(... canvas.add(textObject))
RECURSIVE AddTexts(_, _, _)
AddTexts(objects, g, n) ==
  IF n = 0 THEN objects ELSE add(AddTexts(objects, g, n - 1), TextId(g, n))

\* ballTop without the radius of the ball
BallTopWithoutRadius(d) ==
  IF d.logoTop # Undef
    THEN LET estimatedLogoHeight == RMul(R(200), OrNum(d.logoSizeMultiplier, R(1)))
         IN  RAdd(RAdd(RAdd(RAdd(Val(d.logoTop), estimatedLogoHeight),
                            Frac(21, 4)), R(15)), R(10))
    ELSE Frac(THUMBNAIL_HEIGHT, 2)

\* ballTop of createNineBall
BallTop(d) ==
  IF d.logoTop # Undef
    THEN LET estimatedLogoHeight == RMul(R(200), OrNum(d.logoSizeMultiplier, R(1)))
             ballRadius == RDiv(OrNum(d.nineBallSize, R(250)), R(2))
         IN  RAdd(RAdd(RAdd(RAdd(RAdd(Val(d.logoTop), estimatedLogoHeight),
                                 Frac(21, 4)), ballRadius), R(15)), R(10))
    ELSE Frac(THUMBNAIL_HEIGHT, 2)

\* new Circle({...}) of createNineBall
Ball(d) ==
  [FabricObject("circle") EXCEPT
     !.radius = RDiv(OrNum(d.nineBallSize, R(250)), R(2)),
     !.left = RSub(Frac(THUMBNAIL_WIDTH, 2), R(20)),
     !.top = BallTop(d), !.fill = "#FFFFFF", !.stroke = "#000000",
     !.strokeWidth = R(3), !.originX = "center", !.originY = "center"]

\* new Text("9", {...}) of createNineBall
NumberText(d) ==
  [FabricObject("text") EXCEPT
     !.text = "9",
     !.left = RSub(Frac(THUMBNAIL_WIDTH, 2), R(20)),
     !.top = BallTop(d),
     !.fontSize = RMul(RMul(RMul(RDiv(OrNum(d.nineBallSize, R(250)), R(2)),
                                 Frac(4, 5)), Frac(13, 10)), Frac(6, 5)),
     !.fontFamily = "Arial", !.fontWeight = "bold", !.fill = "#FFD700",
     !.originX = "center", !.originY = "center", !.textAlign = "center"]

\* objects.forEach(obj => textbox or i-text: bringObjectToFront(obj)),
\* over the snapshot getObjects() returned
RECURSIVE BringTextsToFront(_, _, _)
BringTextsToFront(objects, snapshot, h) ==
  IF snapshot = <<>> THEN objects
  ELSE LET o == Head(snapshot)
       IN  BringTextsToFront(
             IF h[o].type \in {"textbox", "i-text"}
               THEN bringObjectToFront(objects, o) ELSE objects,
             Tail(snapshot), h)

\* if (backgroundImageRef) canvas.sendObjectToBack(backgroundImageRef)
KeepBackgroundBack(objects, bgRef) ==
  IF bgRef = Undef THEN objects ELSE sendObjectToBack(objects, Val(bgRef))

\* createNineBall without the reordering that follows the two adds
createNineBallOnTop(objects, g, h, bgRef) ==
  add(add(objects, BallId(g)), NumberTextId(g))

\* the object list after createNineBall; h is the heap with the ball in it
createNineBall(objects, g, h, bgRef) ==
  LET added == add(add(objects, BallId(g)), NumberTextId(g))
  IN  KeepBackgroundBack(BringTextsToFront(added, added, h), bgRef)

\* the heap after createNineBall
HeapWithBall(h, g, d) ==
  (BallId(g) :> Ball(d)) @@ (NumberTextId(g) :> NumberText(d)) @@ h

\* the Image.fromURL calls one run of the timer makes
LoadsStarted(g, d) ==
  (IF TruthyStr(d.backgroundImageUrl)
     THEN {[gen |-> g, kind |-> "bg", idx |-> 0, url |-> Val(d.backgroundImageUrl)]}
     ELSE {})
  \cup
  (IF Len(LogoUrlsOf(d)) > 0
     THEN {[gen |-> g, kind |-> "logos", idx |-> i, url |-> LogoUrlsOf(d)[i]] :
             i \in 1..Len(LogoUrlsOf(d))}
     ELSE IF TruthyStr(d.logoUrl)
       THEN {[gen |-> g, kind |-> "logo", idx |-> 0, url |-> Val(d.logoUrl)]}
       ELSE {})
  \cup
  (IF TruthyStr(d.youtubeLogoUrl)
     THEN {[gen |-> g, kind |-> "youtube", idx |-> 0, url |-> Val(d.youtubeLogoUrl)]}
     ELSE {})
  \cup
  (IF TruthyFlag(d.showNineBall) /\ TruthyStr(d.logoUrl)
     THEN {[gen |-> g, kind |-> "nine", idx |-> 0, url |-> Val(d.logoUrl)]}
     ELSE {})

\* the text objects one run of the timer creates
NewTexts(g, d) ==
  [id \in {TextId(g, i) : i \in 1..Len(TextsOf(d))} |-> Textbox(TextsOf(d)[id[3]])]

\* the oldest pending initialisation timer fires
InitTimer ==
  /\ timers # <<>>
  /\ LET g == Head(timers)
         cur == fabricCanvasRef
         d == Val(initialContent)
         ballNow == TruthyFlag(d.showNineBall) /\ ~TruthyStr(d.logoUrl)
         withTexts == NewTexts(g, d) @@ heap
         h == IF ballNow THEN HeapWithBall(withTexts, g, d) ELSE withTexts
         texts == AddTexts(canvas[cur].objects, g, Len(TextsOf(d)))
     IN  /\ timers' = Tail(timers)
         /\ IF cur = 0
              THEN UNCHANGED <<canvas, closure, loads, heap>>
              ELSE /\ heap' = h
                   /\ canvas' = [canvas EXCEPT ![cur].objects =
                        IF ballNow THEN createNineBall(texts, g, h, Undef)
                        ELSE texts]
                   /\ closure' = (g :> [backgroundImageRef |-> Undef,
                                        loadedLogos |-> 0,
                                        logoImages |-> [i \in 1..Len(LogoUrlsOf(d)) |-> Undef]])
                                 @@ closure
                   /\ loads' = loads \cup LoadsStarted(g, d)
  /\ UNCHANGED <<editVars, initialContent, images, phase, fabricCanvasRef, initializedRef>>

----------------------------------------------------------------------------
(* Completion handlers of the image loads.                                 *)

\* img.width || 1, img.height || 1, img.width || 0
OrOne(x) == IF x = R(0) THEN R(1) ELSE x

\* the scale taken from the width alone
FitScaleByWidth(max, img) == RDiv(max, OrOne(img.width))

\* Math.min(max / (img.width || 1), max / (img.height || 1))
FitScale(max, img) ==
  RMin(RDiv(max, OrOne(img.width)), RDiv(max, OrOne(img.height)))

\* the scale that fits the image inside the canvas instead of covering it
CoverScaleByMin(img) ==
  RMin(RDiv(R(THUMBNAIL_WIDTH), OrOne(img.width)),
       RDiv(R(THUMBNAIL_HEIGHT), OrOne(img.height)))

\* Math.max(THUMBNAIL_WIDTH / (w || 1), THUMBNAIL_HEIGHT / (h || 1))
CoverScale(img) ==
  RMax(RDiv(R(THUMBNAIL_WIDTH), OrOne(img.width)),
       RDiv(R(THUMBNAIL_HEIGHT), OrOne(img.height)))

\* img.set({stroke: "#000000", strokeWidth: 2}) when logoBorder is set
WithBorder(img, d) ==
  IF TruthyFlag(d.logoBorder)
    THEN [img EXCEPT !.stroke = "#000000", !.strokeWidth = R(2)]
    ELSE img

\* the settled promise leaves the pending set
Settle(l) == loads' = loads \ {l}

\* the object list of the canvas fabricCanvasRef points at becomes objects
SetObjects(objects) ==
  canvas' = [canvas EXCEPT ![fabricCanvasRef].objects = objects]

\* the background handler without its sendObjectToBack
AddBackgroundOnTop(objects, id) == add(objects, id)

\* canvas.add(bgImg); canvas.sendObjectToBack(bgImg)
AddBackground(objects, id) == sendObjectToBack(add(objects, id), id)

\* the background image load succeeds
BgLoaded ==
  \E l \in loads :
    /\ l.kind = "bg"
    /\ Settle(l)
    /\ IF fabricCanvasRef = 0
         THEN UNCHANGED <<canvas, closure, heap>>
         ELSE LET img == LoadedImage(l.url)
                  bgImg == [img EXCEPT !.scale = CoverScale(img), !.left = R(0),
                              !.top = R(0), !.selectable = FALSE,
                              !.evented = FALSE]
              IN  /\ heap' = (BgId(l.gen) :> bgImg) @@ heap
                  /\ SetObjects(AddBackground(canvas[fabricCanvasRef].objects,
                                              BgId(l.gen)))
                  /\ closure' = [closure EXCEPT ![l.gen].backgroundImageRef =
                                   Some(BgId(l.gen))]
    /\ UNCHANGED <<editVars, initialContent, images, phase, fabricCanvasRef,
                   initializedRef, timers>>

\* logoUrl.includes(part), for the URLs and parts the program uses
UrlIncludes(url, part) ==
  <<url, part>> \in {<<"/APA.png", "APA.png">>, <<"/barako.png", "barako.png">>}

logoSpacing == 30

\* maxLogoWidth of the multi-logo handler
MultiMaxLogoWidth(url, d) ==
  LET baseLogoWidth == R(150)
      logoMultiplier == OrNum(d.logoSizeMultiplier, R(1))
  IN  IF UrlIncludes(url, "APA.png")
        THEN RMul(RMul(baseLogoWidth, Frac(5, 4)), logoMultiplier)
      ELSE IF UrlIncludes(url, "barako.png")
        THEN RMul(RMul(baseLogoWidth, Frac(19, 20)), logoMultiplier)
      ELSE RMul(baseLogoWidth, logoMultiplier)

\* logoImages.reduce((sum, logo) => sum + logo.width, 0), holes skipped
RECURSIVE SumWidths(_, _)
SumWidths(logoImages, n) ==
  IF n = 0 THEN R(0)
  ELSE IF logoImages[n] = Undef THEN SumWidths(logoImages, n - 1)
  ELSE RAdd(SumWidths(logoImages, n - 1), Val(logoImages[n]).width)

\* totalWidth
TotalWidth(logoImages) ==
  RAdd(SumWidths(logoImages, Len(logoImages)),
       RMul(R(Len(logoImages) - 1), R(logoSpacing)))

\* the starting x without the halving of the free width
StartXNotHalved(totalWidth) == RSub(RSub(R(THUMBNAIL_WIDTH), totalWidth), R(20))

\* let currentX = (THUMBNAIL_WIDTH - totalWidth) / 2 - 20
StartX(totalWidth) ==
  RSub(RDiv(RSub(R(THUMBNAIL_WIDTH), totalWidth), R(2)), R(20))

\* the advance of currentX without the spacing
NextXNoSpacing(currentX, width) == RAdd(currentX, width)

\* currentX += logoData.width + logoSpacing
NextX(currentX, width) == RAdd(currentX, RAdd(width, R(logoSpacing)))

\* currentX when logoImages.forEach reaches index i (holes skipped)
RECURSIVE CurrentX(_, _)
CurrentX(logoImages, i) ==
  IF i = 1 THEN StartX(TotalWidth(logoImages))
  ELSE IF logoImages[i - 1] = Undef THEN CurrentX(logoImages, i - 1)
  ELSE NextX(CurrentX(logoImages, i - 1), Val(logoImages[i - 1]).width)

\* logoData.img.set({left, top: 100, originX: "center", originY: "top"})
PlaceLogo(img, currentX, width) ==
  [img EXCEPT !.left = RAdd(currentX, RDiv(width, R(2))), !.top = R(100),
              !.originX = "center", !.originY = "top"]

\* the heap after logoImages.forEach positioned every logo it holds
PositionLogos(h, logoImages) ==
  LET placed == {Val(logoImages[i]).img :
                   i \in {j \in DOMAIN logoImages : logoImages[j] # Undef}}
      IndexOf(id) == CHOOSE i \in DOMAIN logoImages :
                       logoImages[i] # Undef /\ Val(logoImages[i]).img = id
  IN  [id \in DOMAIN h |->
         IF id \in placed
           THEN PlaceLogo(h[id], CurrentX(logoImages, IndexOf(id)),
                          Val(logoImages[IndexOf(id)]).width)
           ELSE h[id]]

\* logoImages.push(entry): the first free slot, in completion order
PushLogo(logoImages, index, entry) ==
  LET free == CHOOSE i \in DOMAIN logoImages :
                /\ logoImages[i] = Undef
                /\ \A j \in 1..(i - 1) : logoImages[j] # Undef
  IN  [logoImages EXCEPT ![free] = Some(entry)]

\* logoImages[index] = { img, width: scaledWidth }
StoreLogo(logoImages, index, entry) ==
  [logoImages EXCEPT ![index] = Some(entry)]

\* positioning as soon as any logo has loaded
AnyLogoLoaded(loadedLogos, totalLogos) == loadedLogos >= 1

\* if (loadedLogos === totalLogos)
AllLogosLoaded(loadedLogos, totalLogos) == loadedLogos = totalLogos

\* one logo of logoUrls loads
MultiLogoLoaded ==
  \E l \in loads :
    /\ l.kind = "logos"
    /\ Settle(l)
    /\ IF fabricCanvasRef = 0
         THEN UNCHANGED <<canvas, closure, heap>>
         ELSE LET d == Val(initialContent)
                  cl == closure[l.gen]
                  loaded == LoadedImage(l.url)
                  scale == FitScale(MultiMaxLogoWidth(l.url, d), loaded)
                  scaledWidth == RMul(loaded.width, scale)
                  img == WithBorder([loaded EXCEPT !.scale = scale], d)
                  id == LogoId(l.gen, l.idx)
                  logoImages == StoreLogo(cl.logoImages, l.idx,
                                          [img |-> id, width |-> scaledWidth])
                  loadedLogos == cl.loadedLogos + 1
                  h == (id :> img) @@ heap
                  objects == add(canvas[fabricCanvasRef].objects, id)
                  done == AllLogosLoaded(loadedLogos, Len(LogoUrlsOf(d)))
              IN  /\ closure' = [closure EXCEPT ![l.gen].logoImages = logoImages,
                                                ![l.gen].loadedLogos = loadedLogos]
                  /\ heap' = IF done THEN PositionLogos(h, logoImages) ELSE h
                  /\ SetObjects(IF done
                                  THEN KeepBackgroundBack(objects, cl.backgroundImageRef)
                                  ELSE objects)
    /\ UNCHANGED <<editVars, initialContent, images, phase, fabricCanvasRef,
                   initializedRef, timers>>

\* logoTop of the single-logo handler
SingleLogoTop(d, img, scale) ==
  IF d.logoTop # Undef THEN Val(d.logoTop)
  ELSE IF d.texts # Undef /\ Len(Val(d.texts)) > 0
    THEN LET firstTextTop == OrNum(Val(d.texts)[1].top, Frac(THUMBNAIL_HEIGHT, 2))
             scaledHeight == RMul(img.height, scale)
         IN  RSub(RSub(firstTextTop, scaledHeight), R(30))
  ELSE R(100)

\* the single logo loads
SingleLogoLoaded ==
  \E l \in loads :
    /\ l.kind = "logo"
    /\ Settle(l)
    /\ IF fabricCanvasRef = 0
         THEN UNCHANGED <<canvas, closure, heap>>
         ELSE LET d == Val(initialContent)
                  loaded == LoadedImage(l.url)
                  maxLogoWidth == RMul(R(200), OrNum(d.logoSizeMultiplier, R(1)))
                  scale == FitScale(maxLogoWidth, loaded)
                  img == WithBorder(
                           [loaded EXCEPT !.scale = scale,
                              !.left = RSub(Frac(THUMBNAIL_WIDTH, 2), R(20)),
                              !.top = SingleLogoTop(d, loaded, scale),
                              !.originX = "center", !.originY = "top"], d)
              IN  /\ heap' = (LogoId(l.gen, 0) :> img) @@ heap
                  /\ SetObjects(KeepBackgroundBack(
                       add(canvas[fabricCanvasRef].objects, LogoId(l.gen, 0)),
                       closure[l.gen].backgroundImageRef))
                  /\ UNCHANGED closure
    /\ UNCHANGED <<editVars, initialContent, images, phase, fabricCanvasRef,
                   initializedRef, timers>>

\* the secondary (youtube) logo loads
YoutubeLogoLoaded ==
  \E l \in loads :
    /\ l.kind = "youtube"
    /\ Settle(l)
    /\ IF fabricCanvasRef = 0
         THEN UNCHANGED <<canvas, closure, heap>>
         ELSE LET d == Val(initialContent)
                  loaded == LoadedImage(l.url)
                  maxLogoWidth == RMul(R(300), OrNum(d.youtubeLogoSizeMultiplier, R(1)))
                  scale == FitScale(maxLogoWidth, loaded)
                  scaledHeight == RMul(loaded.height, scale)
                  baseTop == Nullish(d.youtubeLogoTop, R(70))
                  youtubeLogoTop == RAdd(baseTop, RDiv(scaledHeight, R(2)))
                  img == [loaded EXCEPT !.scale = scale,
                            !.left = RSub(Frac(THUMBNAIL_WIDTH, 2), R(20)),
                            !.top = youtubeLogoTop,
                            !.originX = "center", !.originY = "center"]
                  arrow == [FabricObject("triangle") EXCEPT
                              !.width = R(40), !.height = R(40),
                              !.left = RSub(Frac(THUMBNAIL_WIDTH, 2), R(20)),
                              !.top = RAdd(RAdd(youtubeLogoTop, RDiv(scaledHeight, R(2))), R(30)),
                              !.fill = "#FF0000", !.originX = "center",
                              !.originY = "center", !.angle = R(180)]
                  withLogo == add(canvas[fabricCanvasRef].objects, YoutubeId(l.gen))
              IN  /\ heap' = IF TruthyFlag(d.showArrow)
                               THEN (YoutubeId(l.gen) :> img) @@ (ArrowId(l.gen) :> arrow) @@ heap
                               ELSE (YoutubeId(l.gen) :> img) @@ heap
                  /\ SetObjects(KeepBackgroundBack(
                       IF TruthyFlag(d.showArrow) THEN add(withLogo, ArrowId(l.gen))
                       ELSE withLogo,
                       closure[l.gen].backgroundImageRef))
                  /\ UNCHANGED closure
    /\ UNCHANGED <<editVars, initialContent, images, phase, fabricCanvasRef,
                   initializedRef, timers>>

\* the logo load the nine-ball waits for settles: then and catch both
\* call createNineBall
NineBallLogoSettled ==
  \E l \in loads :
    /\ l.kind = "nine"
    /\ Settle(l)
    /\ IF fabricCanvasRef = 0
         THEN UNCHANGED <<canvas, heap>>
         ELSE LET h == HeapWithBall(heap, l.gen, Val(initialContent))
              IN  /\ heap' = h
                  /\ SetObjects(createNineBall(canvas[fabricCanvasRef].objects,
                                               l.gen, h,
                                               closure[l.gen].backgroundImageRef))
    /\ UNCHANGED <<editVars, initialContent, images, phase, fabricCanvasRef,
                   initializedRef, timers, closure>>

\* a background, logo or secondary-logo load fails: the catch logs it
LoadFailed ==
  \E l \in loads :
    /\ l.kind \in {"bg", "logos", "logo", "youtube"}
    /\ Settle(l)
    /\ UNCHANGED <<editVars, initialContent, images, phase, fabricCanvasRef,
                   initializedRef, canvas, timers, closure, heap>>

----------------------------------------------------------------------------
(* The controls of a mounted editor: selection, the inputs, add text,      *)
(* delete, clear.                                                          *)

\* the props of the component
propVars == <<component, canvasId, initialContent, images, tabVars>>

\* what only the effect, its cleanup, its timers and its loads write
effectVars ==
  <<phase, fabricCanvasRef, initializedRef, timers, closure, loads, isLoaded,
    resizeTimers>>

\* the inputs of the text panel
inputVars == <<text, fontSize, fontFamily, textColor>>

\* how many objects the user's operations may create in one behaviour
MaxUserObjects == 2

\* the legacy component: no initial content, no canvasId, no key listener
Legacy == component = "ThumbnailEditor"

\* the canvas the listeners of the current effect closed over
EffectCanvas == Len(canvas)

\* the objects the user's operations create
UserTextId(n) == <<0, "usertext", n>>

UploadId(n) == <<0, "upload", n>>

\* canvas.getActiveObject() after a click on an object or on the empty canvas
Select ==
  /\ phase = "mounted"
  /\ \E id \in Range(canvas[EffectCanvas].objects) :
       /\ heap[id].selectable
       /\ heap[id].evented
       /\ canvas[EffectCanvas].active # Some(id)
       /\ canvas' = [canvas EXCEPT ![EffectCanvas].active = Some(id)]
  /\ UNCHANGED <<propVars, effectVars, inputVars, heap, style, uploads,
                 lastDownload, nextUser>>

Deselect ==
  /\ phase = "mounted"
  /\ canvas[EffectCanvas].active # Undef
  /\ canvas' = [canvas EXCEPT ![EffectCanvas].active = Undef]
  /\ UNCHANGED <<propVars, effectVars, inputVars, heap, style, uploads,
                 lastDownload, nextUser>>

\* setTimeout(() => setIsLoaded(true), 0)
SetIsLoaded ==
  /\ phase = "mounted"
  /\ ~isLoaded
  /\ isLoaded' = TRUE
  /\ UNCHANGED <<propVars, uiVars, phase, fabricCanvasRef, initializedRef,
                 canvas, timers, closure, loads, heap, resizeTimers>>

\* the values the user gives the inputs
Texts == {"", "Go"}

FontSizes == {60, 96}

Fonts == {"Arial", "Impact"}

Colors == {"#FFFFFF", "#FF0000"}

\* onChange={(e) => setText(e.target.value)}
SetText ==
  /\ phase = "mounted"
  /\ \E t \in Texts \ {text} : text' = t
  /\ UNCHANGED <<propVars, effectVars, canvas, heap, fontSize, fontFamily,
                 textColor, style, uploads, lastDownload, nextUser>>

\* onChange={(e) => setFontSize(Number(e.target.value))}
SetFontSize ==
  /\ phase = "mounted"
  /\ \E n \in FontSizes \ {fontSize} : fontSize' = n
  /\ UNCHANGED <<propVars, effectVars, canvas, heap, text, fontFamily,
                 textColor, style, uploads, lastDownload, nextUser>>

\* onChange={(e) => setFontFamily(e.target.value)}
SetFontFamily ==
  /\ phase = "mounted"
  /\ \E f \in Fonts \ {fontFamily} : fontFamily' = f
  /\ UNCHANGED <<propVars, effectVars, canvas, heap, text, fontSize,
                 textColor, style, uploads, lastDownload, nextUser>>

\* onChange={(e) => setTextColor(e.target.value)}
SetTextColor ==
  /\ phase = "mounted"
  /\ \E c \in Colors \ {textColor} : textColor' = c
  /\ UNCHANGED <<propVars, effectVars, canvas, heap, text, fontSize,
                 fontFamily, style, uploads, lastDownload, nextUser>>

\* the text box of handleAddText with the default font family
UserTextboxArial ==
  [FabricObject("textbox") EXCEPT
     !.text = text,
     !.left = IF Legacy THEN Frac(THUMBNAIL_WIDTH, 2)
              ELSE RSub(Frac(THUMBNAIL_WIDTH, 2), R(5)),
     !.top = Frac(THUMBNAIL_HEIGHT, 2),
     !.fontSize = R(fontSize), !.fontFamily = "Arial", !.fill = textColor,
     !.textAlign = "center", !.originX = "center", !.originY = "center",
     !.width = RMul(R(THUMBNAIL_WIDTH), Frac(4, 5))]

\* new Textbox(text, {...}) of handleAddText
UserTextbox ==
  [FabricObject("textbox") EXCEPT
     !.text = text,
     !.left = IF Legacy THEN Frac(THUMBNAIL_WIDTH, 2)
              ELSE RSub(Frac(THUMBNAIL_WIDTH, 2), R(5)),
     !.top = Frac(THUMBNAIL_HEIGHT, 2),
     !.fontSize = R(fontSize), !.fontFamily = fontFamily, !.fill = textColor,
     !.textAlign = "center", !.originX = "center", !.originY = "center",
     !.width = RMul(R(THUMBNAIL_WIDTH), Frac(4, 5))]

handleAddText ==
  IF text = "" \/ fabricCanvasRef = 0
    THEN UNCHANGED <<canvas, heap, text, nextUser>>
    ELSE LET textObject == UserTextId(nextUser + 1)
         IN  /\ heap' = (textObject :> UserTextbox) @@ heap
             /\ canvas' = [canvas EXCEPT
                  ![fabricCanvasRef].objects = add(@, textObject),
                  ![fabricCanvasRef].active = Some(textObject)]
             /\ text' = ""
             /\ nextUser' = nextUser + 1

\* the Add Text button, disabled while !isLoaded || !text
AddTextButton ==
  /\ phase = "mounted"
  /\ isLoaded
  /\ text # ""
  /\ nextUser < MaxUserObjects
  /\ handleAddText
  /\ UNCHANGED <<propVars, effectVars, fontSize, fontFamily, textColor,
                 style, uploads, lastDownload>>

\* onKeyPress of the text input: e.key === "Enter"
EnterInTextInput ==
  /\ phase = "mounted"
  /\ text = "" \/ nextUser < MaxUserObjects
  /\ handleAddText
  /\ UNCHANGED <<propVars, effectVars, fontSize, fontFamily, textColor,
                 style, uploads, lastDownload>>

\* canvas.remove(obj): the selection goes with its object
remove(c, id) ==
  [c EXCEPT !.objects = RemoveFromArray(@, id),
            !.active = IF @ = Some(id) THEN Undef ELSE @]

\* the keydown events of the window
Keys == {"Delete", "Backspace", "Enter"}

KeyboardEvents ==
  [key : Keys, ctrlKey : BOOLEAN, metaKey : BOOLEAN, altKey : BOOLEAN,
   shiftKey : BOOLEAN]

\* a key handler that deletes the top object when nothing is selected
handleKeyDownTop(e) ==
  IF /\ e.key = "Delete" \/ e.key = "Backspace"
     /\ ~e.ctrlKey
     /\ ~e.metaKey
     /\ canvas[EffectCanvas].objects # <<>>
    THEN canvas' = [canvas EXCEPT ![EffectCanvas].objects =
                      SubSeq(@, 1, Len(@) - 1),
                    ![EffectCanvas].active = Undef]
    ELSE UNCHANGED canvas

handleKeyDown(e) ==
  IF /\ e.key = "Delete" \/ e.key = "Backspace"
     /\ ~e.ctrlKey
     /\ ~e.metaKey
     /\ canvas[EffectCanvas].active # Undef
    THEN canvas' = [canvas EXCEPT ![EffectCanvas] =
                      remove(@, Val(@.active))]
    ELSE UNCHANGED canvas

\* a key goes down while the listener of the current effect is registered
KeyDown ==
  /\ phase = "mounted"
  /\ ~Legacy
  /\ \E e \in KeyboardEvents : handleKeyDown(e)
  /\ UNCHANGED <<propVars, effectVars, inputVars, heap, style, uploads,
                 lastDownload, nextUser>>

\* the Delete Selected button, disabled while !isLoaded
handleDelete ==
  /\ phase = "mounted"
  /\ isLoaded
  /\ IF fabricCanvasRef # 0 /\ canvas[fabricCanvasRef].active # Undef
       THEN canvas' = [canvas EXCEPT ![fabricCanvasRef] =
                         remove(@, Val(@.active))]
       ELSE UNCHANGED canvas
  /\ UNCHANGED <<propVars, effectVars, inputVars, heap, style, uploads,
                 lastDownload, nextUser>>

\* canvas.clear(): no object, no selection, no background
clear(c) ==
  [c EXCEPT !.objects = <<>>, !.active = Undef, !.backgroundColor = ""]

\* the colour handleClear gives the cleared canvas
ClearColor == IF Legacy THEN "#000000" ELSE "#FFFFFF"

\* the Clear Canvas button, disabled while !isLoaded
handleClear ==
  /\ phase = "mounted"
  /\ isLoaded
  /\ IF fabricCanvasRef # 0
       THEN canvas' = [canvas EXCEPT ![fabricCanvasRef] =
                         [clear(@) EXCEPT !.backgroundColor = ClearColor]]
       ELSE UNCHANGED canvas
  /\ UNCHANGED <<propVars, effectVars, inputVars, heap, style, uploads,
                 lastDownload, nextUser>>

----------------------------------------------------------------------------
(* Image upload, the responsive resize and the exports.                    *)

\* the image files the user picks: <<width, height>>
UploadFiles == {<<2560, 1080>>, <<400, 900>>}

\* img.width || 0
OrZero(x) == x

\* the scale of handleImageUpload taken as the larger ratio
UploadScaleByMax(img) ==
  RMax(RDiv(R(THUMBNAIL_WIDTH), OrOne(img.width)),
       RDiv(R(THUMBNAIL_HEIGHT), OrOne(img.height)))

\* Math.min(THUMBNAIL_WIDTH / (w || 1), THUMBNAIL_HEIGHT / (h || 1))
UploadScale(img) ==
  RMin(RDiv(R(THUMBNAIL_WIDTH), OrOne(img.width)),
       RDiv(R(THUMBNAIL_HEIGHT), OrOne(img.height)))

\* the image of the file after img.scale(scale) and img.set({left, top})
UploadedImage(file) ==
  LET img == [FabricObject("image") EXCEPT !.width = R(file[1]),
                                           !.height = R(file[2])]
      scale == UploadScale(img)
  IN  [img EXCEPT
         !.scale = scale,
         !.left = RDiv(RSub(R(THUMBNAIL_WIDTH),
                            RMul(OrZero(img.width), scale)), R(2)),
         !.top = RDiv(RSub(R(THUMBNAIL_HEIGHT),
                           RMul(OrZero(img.height), scale)), R(2))]

\* the file input changes: reader.readAsDataURL(file)
handleImageUpload ==
  /\ phase = "mounted"
  /\ fabricCanvasRef # 0
  /\ nextUser < MaxUserObjects
  /\ \E file \in UploadFiles :
       uploads' = uploads \cup
         {[id |-> nextUser + 1, stage |-> "reading", file |-> file]}
  /\ nextUser' = nextUser + 1
  /\ UNCHANGED <<propVars, effectVars, inputVars, canvas, heap, style,
                 lastDownload>>

\* reader.onload: Image.fromURL(imgUrl)
ReaderLoaded ==
  /\ \E u \in uploads :
       /\ u.stage = "reading"
       /\ uploads' = (uploads \ {u}) \cup {[u EXCEPT !.stage = "loading"]}
  /\ UNCHANGED <<propVars, effectVars, inputVars, canvas, heap, style,
                 lastDownload, nextUser>>

\* the image of the file is decoded; the legacy component hands its handler
\* to Image.fromURL as a second argument, which the library may never call
UploadLoaded ==
  /\ \E u \in uploads :
       /\ u.stage = "loading"
       /\ uploads' = uploads \ {u}
       /\ \E called \in (IF Legacy THEN BOOLEAN ELSE {TRUE}) :
            IF called /\ fabricCanvasRef # 0
              THEN /\ heap' = (UploadId(u.id) :> UploadedImage(u.file)) @@ heap
                   /\ SetObjects(add(canvas[fabricCanvasRef].objects,
                                     UploadId(u.id)))
              ELSE UNCHANGED <<canvas, heap>>
  /\ UNCHANGED <<propVars, effectVars, inputVars, style, lastDownload,
                 nextUser>>

\* the file cannot be read or decoded: the catch logs it
UploadFailed ==
  /\ \E u \in uploads : uploads' = uploads \ {u}
  /\ UNCHANGED <<propVars, effectVars, inputVars, canvas, heap, style,
                 lastDownload, nextUser>>

\* container.clientWidth: a hidden tab, a phone, a wide window
ContainerWidths == {0, 672, 2000}

\* the scale of handleResize without its cap
ResizeScaleUncapped(clientWidth) ==
  RDiv(RSub(R(clientWidth), R(32)), R(THUMBNAIL_WIDTH))

\* Math.min(maxWidth / THUMBNAIL_WIDTH, 1)
ResizeScale(clientWidth) ==
  RMin(RDiv(RSub(R(clientWidth), R(32)), R(THUMBNAIL_WIDTH)), R(1))

\* the CSS size of the element after canvas.setDimensions(.., {cssOnly: true})
\* and the two style assignments; CSS drops a negative length
CssSize(scale) ==
  IF RLt(scale, R(0)) THEN <<R(THUMBNAIL_WIDTH), R(THUMBNAIL_HEIGHT)>>
  ELSE <<RMul(R(THUMBNAIL_WIDTH), scale), RMul(R(THUMBNAIL_HEIGHT), scale)>>

\* handleResize of the effect that created canvas c; on a disposed canvas
\* setDimensions may throw before the style is written
handleResize(c, clientWidth) ==
  IF phase = "unmounted" THEN UNCHANGED style
  ELSE \E thrown \in (IF canvas[c].disposed THEN BOOLEAN ELSE {FALSE}) :
         IF thrown THEN UNCHANGED style
         ELSE style' = Some(CssSize(ResizeScale(clientWidth)))

\* setTimeout(handleResize, 100), never cleared
ResizeTimer ==
  /\ \E c \in resizeTimers :
       /\ resizeTimers' = resizeTimers \ {c}
       /\ \E clientWidth \in ContainerWidths : handleResize(c, clientWidth)
  /\ UNCHANGED <<propVars, inputVars, phase, fabricCanvasRef, initializedRef,
                 canvas, timers, closure, loads, heap, isLoaded, uploads,
                 lastDownload, nextUser>>

\* the resize event of the window, while the listener is registered
WindowResize ==
  /\ phase = "mounted"
  /\ \E clientWidth \in ContainerWidths :
       handleResize(EffectCanvas, clientWidth)
  /\ UNCHANGED <<propVars, effectVars, inputVars, canvas, heap, uploads,
                 lastDownload, nextUser>>

\* the size toDataURL renders with the options
toDataURL(c, options) ==
  [format |-> options.format, quality |-> options.quality,
   width |-> RMul(R(c.width), options.multiplier),
   height |-> RMul(R(c.height), options.multiplier)]

\* the options of handleExportPNG with a doubled multiplier
PngOptionsDoubled ==
  [format |-> "png", quality |-> R(1), multiplier |-> R(2)]

\* {format: "png", quality: 1, multiplier: 1}
PngOptions == [format |-> "png", quality |-> R(1), multiplier |-> R(1)]

\* {format: "jpeg", quality: 0.95, multiplier: 1}
JpegOptions ==
  [format |-> "jpeg", quality |-> Frac(95, 100), multiplier |-> R(1)]

\* the file name of the legacy component for every editor
FilenameWithoutId(ext) == <<"thumbnail", ext>>

\* `thumbnail-${canvasId}.png` with canvasId = `canvas-${tab.id}`
Filename(ext) ==
  IF Legacy THEN <<"thumbnail", ext>>
  ELSE <<"thumbnail-", "canvas-", canvasId, ext>>

\* link.download = filename; link.href = dataURL; link.click()
downloadImage(dataURL, filename) ==
  lastDownload' = Some([dataURL |-> dataURL, filename |-> filename])

\* the Export PNG button, disabled while !isLoaded
handleExportPNG ==
  /\ phase = "mounted"
  /\ isLoaded
  /\ IF fabricCanvasRef = 0 THEN UNCHANGED lastDownload
     ELSE downloadImage(toDataURL(canvas[fabricCanvasRef], PngOptions),
                        Filename(".png"))
  /\ UNCHANGED <<propVars, effectVars, inputVars, canvas, heap, style,
                 uploads, nextUser>>

\* the Export JPEG button, disabled while !isLoaded
handleExportJPEG ==
  /\ phase = "mounted"
  /\ isLoaded
  /\ IF fabricCanvasRef = 0 THEN UNCHANGED lastDownload
     ELSE downloadImage(toDataURL(canvas[fabricCanvasRef], JpegOptions),
                        Filename(".jpg"))
  /\ UNCHANGED <<propVars, effectVars, inputVars, canvas, heap, style,
                 uploads, nextUser>>

----------------------------------------------------------------------------
(* TabbedThumbnailEditor: the date text of tab 5.                          *)

\* every variable of a single editor
editorVars ==
  <<initialContent, images, phase, fabricCanvasRef, initializedRef, canvas,
    timers, closure, loads, heap, component, canvasId, isLoaded, text,
    fontSize, fontFamily, textColor, style, resizeTimers, uploads,
    lastDownload, nextUser>>

\* the largest number getOrdinalSuffix is applied to
MaxDay == 199

\* a % b of JavaScript: the sign of the dividend (-0 indexes like 0)
JsRem(a, b) == IF a >= 0 THEN a % b ELSE 0 - ((0 - a) % b)

\* s[i] of a JavaScript array: undefined outside 0..length-1
Index(s, i) == IF i \in 0..(Len(s) - 1) THEN Some(s[i + 1]) ELSE Undef

\* a || b on optional strings that are never empty
OrElse(a, b) == IF a # Undef THEN a ELSE b

\* the suffix looked up by the last two digits only
getOrdinalSuffixByV(n) ==
  LET s == <<"th", "st", "nd", "rd">>
      v == JsRem(n, 100)
  IN  <<n, Val(OrElse(Index(s, v), Index(s, 0)))>>

\* n + (s[(v - 20) % 10] || s[v] || s[0])
getOrdinalSuffix(n) ==
  LET s == <<"th", "st", "nd", "rd">>
      v == JsRem(n, 100)
  IN  <<n, Val(OrElse(OrElse(Index(s, JsRem(v - 20, 10)), Index(s, v)),
                      Index(s, 0)))>>

\* the tabs render on some day
InitDate ==
  /\ component = "SingleThumbnailEditor"
  /\ canvasId = 5
  /\ initialContent = Undef
  /\ images = WideFiles
  /\ InitialState
  /\ activeTab = 1
  /\ editors = <<>>
  /\ day \in 0..MaxDay
  /\ formattedDate = Undef

\* const formattedDate = `${getOrdinalSuffix(day)} ${month} ${year}`
FormatDate ==
  /\ formattedDate' = Some(getOrdinalSuffix(day))
  /\ UNCHANGED <<editorVars, activeTab, editors, day>>

\* midnight passes between two renders
NextDay ==
  /\ day < MaxDay
  /\ day' = day + 1
  /\ UNCHANGED <<editorVars, activeTab, editors, formattedDate>>

NextDate ==
  \/ FormatDate
  \/ NextDay

SpecDate == InitDate /\ [][NextDate]_vars

-----------------------------------------------------------------------------
(* TabbedThumbnailEditor: every tab renders its own SingleThumbnailEditor, *)
(* in a div that is "block" for the active tab and "hidden" for the        *)
(* others.  editors[t] is the editor of tab t; its canvases hold object    *)
(* identities only.                                                        *)

MaxTabs == 2

Tabs == 1..MaxTabs

\* className={activeTab === tab.id ? "block" : "hidden"}
Visible(t) == activeTab = t

\* an editor the first commit has not reached
UnmountedEditor ==
  [phase |-> "initial", canvas |-> <<>>, fabricCanvasRef |-> 0,
   initializedRef |-> FALSE, timers |-> <<>>, text |-> "", nextUser |-> 0]

\* the texts of the initial content of a tab
TabTexts(t) == <<TextEntry("Billiards in Punggol")>>

\* the effect of the editor ed: a new canvas on its own element, the key
\* listener of the window, the initialisation timer
EditorEffect(ed) ==
  LET id == Len(ed.canvas) + 1
  IN  [ed EXCEPT !.phase = "mounted",
                 !.canvas = Append(@, NewCanvas("#FFFFFF")),
                 !.fabricCanvasRef = id,
                 !.initializedRef = TRUE,
                 !.timers = IF ed.initializedRef THEN @ ELSE Append(@, id)]

\* the cleanup of the effect of the editor ed
EditorCleanup(ed) ==
  [ed EXCEPT !.canvas = Cleanup(@), !.initializedRef = FALSE]

\* the first commit of TabbedThumbnailEditor: the effect of every editor
RenderTabs ==
  /\ \A t \in Tabs : editors[t].phase = "initial"
  /\ editors' = [t \in Tabs |-> EditorEffect(editors[t])]
  /\ UNCHANGED <<editorVars, activeTab, day, formattedDate>>

\* the 200 ms timer of tab t fires, after the timers of the tabs before it
TabInitTimer(t) ==
  /\ editors[t].timers # <<>>
  /\ \A u \in 1..(t - 1) : editors[u].timers = <<>>
  /\ LET ed == editors[t]
         cur == ed.fabricCanvasRef
         g == Head(ed.timers)
     IN  editors' = [editors EXCEPT
           ![t] = [ed EXCEPT
                     !.timers = Tail(@),
                     !.canvas = IF cur = 0 THEN @
                                ELSE [@ EXCEPT ![cur].objects =
                                        AddTexts(@, g, Len(TabTexts(t)))]]]
  /\ UNCHANGED <<editorVars, activeTab, day, formattedDate>>

\* a tab switch that renders only the active tab: the editor shown before
\* unmounts and the editor of tab t runs its effect
setActiveTabRendering(t) ==
  /\ t # activeTab
  /\ \A u \in Tabs : editors[u].phase = "mounted"
  /\ activeTab' = t
  /\ editors' = [editors EXCEPT
                   ![activeTab] = EditorCleanup(@),
                   ![t] = EditorEffect(@)]
  /\ UNCHANGED <<editorVars, day, formattedDate>>

\* onClick={() => setActiveTab(tab.id)}: the effects depend on canvasId only
setActiveTab(t) ==
  /\ t # activeTab
  /\ \A u \in Tabs : editors[u].phase = "mounted"
  /\ activeTab' = t
  /\ UNCHANGED <<editorVars, editors, day, formattedDate>>

SwitchTab == \E t \in Tabs : setActiveTab(t)

\* the text input of the visible editor
TabSetText ==
  /\ editors[activeTab].phase = "mounted"
  /\ \E txt \in Texts \ {editors[activeTab].text} :
       editors' = [editors EXCEPT ![activeTab].text = txt]
  /\ UNCHANGED <<editorVars, activeTab, day, formattedDate>>

\* handleAddText of the editor ed
EditorAddText(ed) ==
  IF ed.text = "" \/ ed.fabricCanvasRef = 0 THEN ed
  ELSE LET textObject == UserTextId(ed.nextUser + 1)
       IN  [ed EXCEPT
              !.canvas = [@ EXCEPT
                 ![ed.fabricCanvasRef].objects = add(@, textObject),
                 ![ed.fabricCanvasRef].active = Some(textObject)],
              !.text = "",
              !.nextUser = @ + 1]

\* Enter in the text input of the visible editor
TabEnterInTextInput ==
  /\ editors[activeTab].phase = "mounted"
  /\ editors[activeTab].text # ""
  /\ editors[activeTab].nextUser < MaxUserObjects
  /\ editors' = [editors EXCEPT ![activeTab] = EditorAddText(@)]
  /\ UNCHANGED <<editorVars, activeTab, day, formattedDate>>

\* a click on an object of the visible canvas
TabSelect ==
  /\ editors[activeTab].phase = "mounted"
  /\ LET cur == editors[activeTab].fabricCanvasRef
     IN  \E id \in Range(editors[activeTab].canvas[cur].objects) :
           /\ editors[activeTab].canvas[cur].active # Some(id)
           /\ editors' = [editors EXCEPT
                ![activeTab].canvas[cur].active = Some(id)]
  /\ UNCHANGED <<editorVars, activeTab, day, formattedDate>>

\* handleKeyDown of the editor ed, registered on the window by its effect
EditorKeyDown(ed, e) ==
  LET cur == ed.fabricCanvasRef
  IN  IF /\ ed.phase = "mounted"
         /\ e.key = "Delete" \/ e.key = "Backspace"
         /\ ~e.ctrlKey
         /\ ~e.metaKey
         /\ ed.canvas[cur].active # Undef
        THEN [ed EXCEPT !.canvas[cur] = remove(@, Val(@.active))]
        ELSE ed

\* a key goes down: the window calls the listener of every mounted editor
TabKeyDown ==
  /\ \A t \in Tabs : editors[t].phase = "mounted"
  /\ \E e \in KeyboardEvents :
       editors' = [t \in Tabs |-> EditorKeyDown(editors[t], e)]
  /\ UNCHANGED <<editorVars, activeTab, day, formattedDate>>

InitTabs ==
  /\ component = "TabbedThumbnailEditor"
  /\ canvasId = 0
  /\ initialContent = Undef
  /\ images = WideFiles
  /\ InitialState
  /\ activeTab = 1
  /\ editors = [t \in Tabs |-> UnmountedEditor]
  /\ day = 1
  /\ formattedDate = Undef

NextTabs ==
  \/ RenderTabs
  \/ \E t \in Tabs : TabInitTimer(t)
  \/ SwitchTab
  \/ TabSetText
  \/ TabEnterInTextInput
  \/ TabSelect
  \/ TabKeyDown

SpecTabs == InitTabs /\ [][NextTabs]_vars

----------------------------------------------------------------------------
(* Vocabulary of the properties.                                           *)

Gen(id) == id[1]

Role(id) == id[2]

Idx(id) == id[3]

\* the canvases that have not been disposed
LiveCanvases == {c \in DOMAIN canvas : ~canvas[c].disposed}

\* the timers that have fired
Fired == DOMAIN closure

\* every load the run g of the timer started has settled
Settled(g) == g \in Fired /\ \A l \in loads : l.gen # g

\* nothing of any initialisation is pending
AllSettled == phase # "initial" /\ timers = <<>> /\ loads = {}

\* the multi-logo handler has committed the position of the object
Positioned(o) == o.top = R(100) /\ o.originX = "center" /\ o.originY = "top"

\* how many logos logoUrls names
TotalLogos == IF initialContent = Undef THEN 0 ELSE Len(LogoUrlsOf(Val(initialContent)))

\* every logo of run g is on the heap with its position committed
AllPositioned(g) ==
  /\ TotalLogos > 0
  /\ \A i \in 1..TotalLogos :
       LogoId(g, i) \in DOMAIN heap /\ Positioned(heap[LogoId(g, i)])

\* the positions of the object list that hold an object of the role
Positions(objects, role) == {i \in DOMAIN objects : Role(objects[i]) = role}

----------------------------------------------------------------------------
(* C1: under any sequence of mount, cleanup and re-mount and any firing of *)
(* the pending timers, the initial content is added to the live canvas at  *)
(* most once: no live canvas holds two objects made from the same item of  *)
(* the descriptor.  The code leaves the first timer pending across the     *)
(* cleanup and resets initializedRef, so both timers populate the canvas.  *)
C1_InitialContentAtMostOnce ==
  \A c \in LiveCanvases :
    \A i, j \in DOMAIN canvas[c].objects :
      (/\ i # j
       /\ Role(canvas[c].objects[i]) = Role(canvas[c].objects[j])
       /\ Idx(canvas[c].objects[i]) = Idx(canvas[c].objects[j]))
      => FALSE

(* C2: once the cleanup has disposed a canvas, no pending callback adds    *)
(* objects to it or reorders it: a disposed canvas keeps the empty object  *)
(* list dispose left.  The cleanup never clears fabricCanvasRef, so the    *)
(* liveness check of the handlers passes after the unmount.                *)
C2_DisposedCanvasUntouched ==
  \A c \in DOMAIN canvas : canvas[c].disposed => canvas[c].objects = <<>>

(* C3: once all loads of the initialisation have settled, a background     *)
(* image that loaded is the back-most object: in every canvas that holds   *)
(* a background image, index 1 of the object list is a background image    *)
(* and no other kind of object lies below a background image, for every    *)
(* completion order of the loads; on an editor mounted once, the image the *)
(* background handler added is itself the head of the object list.         *)
C3_BackgroundBackmost ==
  AllSettled =>
    /\ \A c \in DOMAIN canvas :
         \A j \in Positions(canvas[c].objects, "bg") :
           \A i \in 1..j : Role(canvas[c].objects[i]) = "bg"
    /\ \A g \in Fired :
         (closure[g].backgroundImageRef # Undef /\ Len(canvas) = 1
          /\ phase = "mounted")
         => Head(canvas[1].objects) = BgId(g)

\* settled, with the background below texts, a logo and the nine-ball
C3_Witness ==
  /\ AllSettled
  /\ fabricCanvasRef \in LiveCanvases
  /\ LET objects == canvas[fabricCanvasRef].objects
     IN  /\ Len(objects) >= 5
         /\ Role(objects[1]) = "bg"
         /\ Positions(objects, "logo") # {}
         /\ Positions(objects, "ball") # {}
         /\ Positions(objects, "text") # {}

(* C4: a failed load only omits its own object and aborts no sibling       *)
(* layout step: once the loads of a run have settled, every logo of        *)
(* logoUrls that did load has its side-by-side position, and the nine-ball *)
(* exists when showNineBall is set.  The code positions the logos only     *)
(* when loadedLogos reaches totalLogos, which a failed load prevents.      *)
C4_FailureOmitsOnlyFailed ==
  \A g \in Fired :
    Settled(g) =>
      /\ \A i \in 1..TotalLogos :
           LogoId(g, i) \in DOMAIN heap => Positioned(heap[LogoId(g, i)])
      /\ TruthyFlag(Val(initialContent).showNineBall) => BallId(g) \in DOMAIN heap

(* C5: in the multi-logo case no logo has its position set before every    *)
(* logo of logoUrls has loaded: whenever one logo of a run is positioned,  *)
(* no logo load of that run is pending and every logo of the run is        *)
(* loaded and positioned with it.                                          *)
C5_PositionsCommittedTogether ==
  \A g \in Fired :
    \A i \in 1..TotalLogos :
      (LogoId(g, i) \in DOMAIN heap /\ Positioned(heap[LogoId(g, i)]))
      => /\ \A l \in loads : ~(l.gen = g /\ l.kind = "logos")
         /\ AllPositioned(g)

\* all three logos positioned after the last of logoUrls loaded first
C5_Witness ==
  \E g \in Fired :
    /\ TotalLogos = 3
    /\ AllPositioned(g)
    /\ fabricCanvasRef \in LiveCanvases
    /\ LET objects == canvas[fabricCanvasRef].objects
       IN  \E i, j \in DOMAIN objects :
             i < j /\ objects[i] = LogoId(g, 3) /\ objects[j] = LogoId(g, 1)

(* C6: a descriptor with N text entries yields exactly N text boxes: once  *)
(* the initialisation timers have fired, the canvas of the mounted editor  *)
(* holds exactly N textbox objects, whatever the image loads do.  After a  *)
(* re-mount two timers populate the same canvas (see C1) and it holds 2N.  *)
C6_ExactlyNTextBoxes ==
  (phase = "mounted" /\ timers = <<>> /\ initialContent # Undef) =>
    LET objects == canvas[fabricCanvasRef].objects
    IN  Cardinality({i \in DOMAIN objects : heap[objects[i]].type = "textbox"})
          = Len(TextsOf(Val(initialContent)))

\* the text box the claim describes: a supplied attribute is taken as it
\* is, 0 included, and a default applies only to an absent one
ClaimedTextbox(textConfig) ==
  [FabricObject("textbox") EXCEPT
     !.text = textConfig.content,
     !.left = Nullish(textConfig.left, R(620)),
     !.top = Nullish(textConfig.top, R(360)),
     !.fontSize = Nullish(textConfig.fontSize, R(60)),
     !.fontFamily = Nullish(textConfig.fontFamily, "Arial"),
     !.fill = Nullish(textConfig.color, "#FFFFFF"),
     !.fontWeight = Nullish(textConfig.fontWeight, "bold"),
     !.stroke = Nullish(textConfig.stroke, "#000000"),
     !.strokeWidth = Nullish(textConfig.strokeWidth, R(3)),
     !.textAlign = Nullish(textConfig.textAlign, "center"),
     !.originX = Nullish(textConfig.originX, "center"),
     !.originY = "center",
     !.width = Nullish(textConfig.width, R(1024)),
     !.angle = Nullish(textConfig.angle, R(0))]

(* C7: every attribute a text entry supplies, 0 included, is the value of  *)
(* the created text object, and an attribute takes its default only when   *)
(* it is not supplied.  The code defaults top, fontSize and width with ||, *)
(* which replaces a supplied 0 by the default.                             *)
C7_SuppliedAttributesKept ==
  \A id \in DOMAIN heap :
    Role(id) = "text" =>
      heap[id] = ClaimedTextbox(TextsOf(Val(initialContent))[Idx(id)])

\* the scaled width and the edges of an image whose originX is "center"
ScaledWidth(o) == RMul(o.width, o.scale)

ScaledHeight(o) == RMul(o.height, o.scale)

LeftEdge(o) == RSub(o.left, RDiv(ScaledWidth(o), R(2)))

RightEdge(o) == RAdd(o.left, RDiv(ScaledWidth(o), R(2)))

\* the sum of the scaled widths of the first n logos of run g
RECURSIVE SumScaledWidths(_, _)
SumScaledWidths(g, n) ==
  IF n = 0 THEN R(0)
  ELSE RAdd(SumScaledWidths(g, n - 1), ScaledWidth(heap[LogoId(g, n)]))

(* C8: multi-logo layout, once all logos have loaded: from the left edge   *)
(* of the first logo to the right edge of the last the group is as wide    *)
(* as the sum of the scaled widths plus 30 x (count - 1), and consecutive  *)
(* logos, in descriptor order, are exactly 30 px apart edge to edge.       *)
C8_GroupWidthAndSpacing ==
  \A g \in Fired :
    AllPositioned(g) =>
      /\ RSub(RightEdge(heap[LogoId(g, TotalLogos)]), LeftEdge(heap[LogoId(g, 1)]))
           = RAdd(SumScaledWidths(g, TotalLogos), R(30 * (TotalLogos - 1)))
      /\ \A i \in 1..(TotalLogos - 1) :
           RSub(LeftEdge(heap[LogoId(g, i + 1)]), RightEdge(heap[LogoId(g, i)]))
             = R(30)

\* three logos of different scaled widths laid out
C8_Witness ==
  \E g \in Fired :
    /\ TotalLogos = 3
    /\ AllPositioned(g)
    /\ ScaledWidth(heap[LogoId(g, 1)]) # ScaledWidth(heap[LogoId(g, 2)])
    /\ ScaledWidth(heap[LogoId(g, 2)]) # ScaledWidth(heap[LogoId(g, 3)])

\* the midpoint between the left edge of the first logo and the right
\* edge of the last
GroupMidpoint(g) ==
  RDiv(RAdd(LeftEdge(heap[LogoId(g, 1)]), RightEdge(heap[LogoId(g, TotalLogos)])),
       R(2))

(* C9 as stated: the group of logos is centred on the canvas, its midpoint *)
(* at x = 640.                                                             *)
C9_GroupCenteredAt640 ==
  \A g \in Fired : AllPositioned(g) => GroupMidpoint(g) = R(640)

(* C9 amended: the group of logos is centred 20 px left of the canvas      *)
(* centre: the midpoint between the left edge of the first logo and the    *)
(* right edge of the last is at x = 620.                                   *)
C9_GroupCenteredAt620 ==
  \A g \in Fired : AllPositioned(g) => GroupMidpoint(g) = R(620)

\* two logos laid out over a loaded background image
C9_Witness ==
  \E g \in Fired :
    /\ TotalLogos = 2
    /\ AllPositioned(g)
    /\ BgId(g) \in DOMAIN heap

\* the logo top the claim describes
ClaimedLogoTop(d, o) ==
  IF d.logoTop # Undef THEN Val(d.logoTop)
  ELSE IF Len(TextsOf(d)) > 0
    THEN RSub(RSub(Nullish(TextsOf(d)[1].top, R(360)), ScaledHeight(o)), R(30))
  ELSE R(100)

(* C10: single-logo layout: with no logoTop and at least one text entry    *)
(* the logo's top is the first text entry's top (360 if it gives none)     *)
(* minus the scaled height minus 30; a given logoTop, 0 included, is the   *)
(* top; with neither it is 100.  The code reads the first entry's top with *)
(* ||, so a supplied top of 0 counts as 360 (see C7).                      *)
C10_SingleLogoTop ==
  \A id \in DOMAIN heap :
    (Role(id) = "logo" /\ Idx(id) = 0) =>
      heap[id].top = ClaimedLogoTop(Val(initialContent), heap[id])

\* x <= y on the numbers
RLe(x, y) == ~RLt(y, x)

(* C15: with showNineBall set, once all loads of the initialisation have   *)
(* settled, the ball circle and its "9" label lie below every text box of  *)
(* the descriptor and above every background image in the object list that *)
(* holds them, whether the ball was created at once or after the logo load *)
(* settled, for every completion order of the other loads.                 *)
C15_NineBallBelowTexts ==
  AllSettled =>
    \A c \in DOMAIN canvas :
      LET objects == canvas[c].objects
      IN  \A p \in Positions(objects, "ball") \cup Positions(objects, "number") :
            /\ \A q \in Positions(objects, "text") : p < q
            /\ \A b \in Positions(objects, "bg") : b < p

\* settled, the ball made after the logo load, between background and texts
C15_Witness ==
  /\ AllSettled
  /\ initialContent # Undef
  /\ TruthyStr(Val(initialContent).logoUrl)
  /\ \E c \in LiveCanvases :
       LET objects == canvas[c].objects
       IN  /\ Positions(objects, "ball") # {}
           /\ Positions(objects, "number") # {}
           /\ Positions(objects, "text") # {}
           /\ Positions(objects, "bg") # {}

(* C19: a background image of width w > 0 and height h > 0 is scaled by    *)
(* the one factor s that covers the canvas, s = max(1280 / w, 720 / h):    *)
(* w * s >= 1280 and h * s >= 720 with equality in one dimension; it is    *)
(* placed at left 0, top 0 and is neither selectable nor evented.          *)
C19_BackgroundCovers ==
  \A id \in DOMAIN heap :
    Role(id) = "bg" =>
      LET o == heap[id]
          w == RMul(o.width, o.scale)
          h == RMul(o.height, o.scale)
      IN  /\ RLe(R(THUMBNAIL_WIDTH), w)
          /\ RLe(R(THUMBNAIL_HEIGHT), h)
          /\ w = R(THUMBNAIL_WIDTH) \/ h = R(THUMBNAIL_HEIGHT)
          /\ o.left = R(0)
          /\ o.top = R(0)
          /\ ~o.selectable
          /\ ~o.evented

\* a background image loaded that the height ratio scales: it overflows
\* the canvas to the right
C19_Witness ==
  \E id \in DOMAIN heap :
    /\ Role(id) = "bg"
    /\ RLt(R(0), heap[id].width)
    /\ RLt(R(0), heap[id].height)
    /\ RMul(heap[id].height, heap[id].scale) = R(THUMBNAIL_HEIGHT)
    /\ RLt(R(THUMBNAIL_WIDTH), RMul(heap[id].width, heap[id].scale))

\* the user's objects that are on no canvas any more
Removed ==
  {id \in DOMAIN heap :
     /\ Role(id) \in {"usertext", "upload"}
     /\ \A c \in DOMAIN canvas : id \notin Range(canvas[c].objects)}

(* C11: deleting with no object selected is a no-op: a step of the Delete  *)
(* button handler or of the Delete/Backspace key handler taken while the   *)
(* canvas has no active object leaves the object list, the z-order, the    *)
(* selection and the background of every canvas unchanged.                 *)
C11_DeleteWithoutSelectionNoOp ==
  [][((handleDelete \/ KeyDown)
      /\ fabricCanvasRef # 0
      /\ canvas[fabricCanvasRef].active = Undef)
     => (canvas' = canvas /\ heap' = heap)]_vars

\* nothing is selected on a loaded editor whose canvas holds objects, after
\* an earlier deletion discarded the selection
C11_Witness ==
  /\ phase = "mounted"
  /\ isLoaded
  /\ ~Legacy
  /\ canvas[fabricCanvasRef].active = Undef
  /\ canvas[fabricCanvasRef].objects # <<>>
  /\ Removed # {}

\* a modifier key is held
ModifierHeld(e) == e.ctrlKey \/ e.metaKey \/ e.altKey \/ e.shiftKey

(* C12: pressing Delete or Backspace while Ctrl, Meta, Alt or Shift is     *)
(* held does not delete: the step the key handler takes for such an event  *)
(* leaves the selected object in the object list.  The handler tests only  *)
(* ctrlKey and metaKey, so Shift+Delete and Alt+Delete remove the object.  *)
C12_ModifierBlocksDelete ==
  [][\A e \in KeyboardEvents :
       (/\ phase = "mounted"
        /\ ~Legacy
        /\ ModifierHeld(e)
        /\ canvas[EffectCanvas].active # Undef
        /\ handleKeyDown(e))
       => /\ canvas'[EffectCanvas].objects = canvas[EffectCanvas].objects
          /\ canvas'[EffectCanvas].active = canvas[EffectCanvas].active]_vars

\* the colour the canvas of the editor was created with, as the claim has it
InitialBackground ==
  IF Legacy THEN "#000000"
  ELSE IF initialContent = Undef THEN "#FFFFFF"
  ELSE IF Val(initialContent).backgroundColor = Undef THEN "#FFFFFF"
  ELSE Val(Val(initialContent).backgroundColor)

(* C17: immediately after Clear the object list of the canvas is empty and *)
(* its background colour is the colour the canvas was created with (the    *)
(* descriptor's backgroundColor, or #FFFFFF when none).  handleClear of    *)
(* SingleThumbnailEditor always sets #FFFFFF.                              *)
C17_ClearRestoresInitialBackground ==
  [][(handleClear /\ fabricCanvasRef # 0)
     => /\ canvas'[fabricCanvasRef].objects = <<>>
        /\ canvas'[fabricCanvasRef].backgroundColor = InitialBackground]_vars

\* a step of handleAddText, from the button or from the Enter key
AddTextStep == AddTextButton \/ EnterInTextInput

\* what the claim says of a step of handleAddText, for the centre x
AddsTextAt(x) ==
  AddTextStep =>
    IF text # ""
      THEN LET old == canvas[fabricCanvasRef].objects
               new == canvas'[fabricCanvasRef].objects
               id == new[Len(new)]
           IN  /\ Len(new) = Len(old) + 1
               /\ SubSeq(new, 1, Len(old)) = old
               /\ id \notin DOMAIN heap
               /\ DOMAIN heap' = DOMAIN heap \cup {id}
               /\ \A o \in DOMAIN heap : heap'[o] = heap[o]
               /\ \A c \in DOMAIN canvas \ {fabricCanvasRef} :
                    canvas'[c] = canvas[c]
               /\ heap'[id].type = "textbox"
               /\ heap'[id].text = text
               /\ heap'[id].left = x
               /\ heap'[id].top = R(360)
               /\ heap'[id].originX = "center"
               /\ heap'[id].originY = "center"
               /\ heap'[id].fontFamily = fontFamily
               /\ heap'[id].fontSize = R(fontSize)
               /\ heap'[id].fill = textColor
               /\ canvas'[fabricCanvasRef].active = Some(id)
               /\ text' = ""
      ELSE canvas' = canvas /\ heap' = heap /\ text' = text

(* C16 as stated: with a non-empty input, add text appends exactly one     *)
(* text box on top of the object list at the canvas centre (x = 640,       *)
(* y = 360, centre origin) with the selected font family, size and colour, *)
(* makes it the active object and clears the input; with an empty input it *)
(* changes neither the canvas nor the selection.                           *)
C16_AddTextAt640 == [][AddsTextAt(R(640))]_vars

(* C16 amended: the same, with x = 635 in SingleThumbnailEditor (the code  *)
(* shifts the box 5 px left of the centre) and x = 640 in the legacy       *)
(* ThumbnailEditor.                                                        *)
C16_AddTextAt635 ==
  [][AddsTextAt(IF Legacy THEN R(640) ELSE R(635))]_vars

\* a text box added with a font, size and colour the user chose is on top
\* of the initial content, selected, and the input is empty again
C16_Witness ==
  /\ phase = "mounted"
  /\ ~Legacy
  /\ text = ""
  /\ LET objects == canvas[fabricCanvasRef].objects
         id == objects[Len(objects)]
     IN  /\ Len(objects) >= 2
         /\ Role(id) = "usertext"
         /\ canvas[fabricCanvasRef].active = Some(id)
         /\ heap[id].left = R(635)
         /\ heap[id].fontFamily = "Impact"
         /\ heap[id].fontSize = R(96)
         /\ heap[id].fill = "#FF0000"

(* C13: export always yields a 1280 x 720 image: after any sequence of    *)
(* resizes, edits, mounts and re-mounts every canvas still has the         *)
(* internal width 1280 and height 720, and the image either export handed  *)
(* to the browser was rendered with multiplier 1, 1280 x 720, whatever the *)
(* CSS size of the canvas element.                                         *)
C13_ExportIs1280x720 ==
  /\ \A c \in DOMAIN canvas :
       canvas[c].width = 1280 /\ canvas[c].height = 720
  /\ lastDownload # Undef =>
       /\ Val(lastDownload).dataURL.width = R(1280)
       /\ Val(lastDownload).dataURL.height = R(720)

\* an export exists while the canvas element is shown at half size
C13_Witness ==
  /\ lastDownload # Undef
  /\ style = Some(<<R(640), R(360)>>)
  /\ fabricCanvasRef # 0
  /\ canvas[fabricCanvasRef].objects # <<>>

\* min((w - 32) / 1280, 1), case by case
ClaimedScale(w) == IF w - 32 < 1280 THEN Frac(w - 32, 1280) ELSE R(1)

(* C14: a resize is a presentation-only transform: a step of handleResize, *)
(* from the window's resize event or from the 100 ms timer, changes only   *)
(* the CSS size of the canvas element; the scale min((w - 32) / 1280, 1)   *)
(* never exceeds 1 and the element gets 1280 x 720 times that scale (the   *)
(* 1280 x 720 of setDimensions when the scale is negative); the object     *)
(* lists, the objects, the z-order, the selection, the background and the  *)
(* internal size of every canvas are unchanged.                            *)
C14_ResizeIsCssOnly ==
  [][(ResizeTimer \/ WindowResize) =>
       /\ canvas' = canvas
       /\ heap' = heap
       /\ style' # style =>
            \E w \in ContainerWidths :
              LET s == ClaimedScale(w)
              IN  /\ RLe(s, R(1))
                  /\ style' = Some(IF RLt(s, R(0)) THEN <<R(1280), R(720)>>
                                   ELSE <<RMul(R(1280), s), RMul(R(720), s)>>)]_vars

\* the canvas element is shown at half size over a canvas that holds objects
C14_Witness ==
  /\ style = Some(<<R(640), R(360)>>)
  /\ phase = "mounted"
  /\ Len(canvas[fabricCanvasRef].objects) >= 2
  /\ lastDownload = Undef

\* what the claim says of the file an export hands to the browser
ExportsAs(format, quality, ext) ==
  /\ canvas' = canvas
  /\ heap' = heap
  /\ style' = style
  /\ lastDownload' # Undef
  /\ Val(lastDownload').dataURL.format = format
  /\ Val(lastDownload').dataURL.quality = quality
  /\ ~Legacy =>
       Val(lastDownload').filename = <<"thumbnail-", "canvas-", canvasId, ext>>

(* C20: export serializes as png with quality 1 or as jpeg with quality    *)
(* 0.95 and downloads under thumbnail-<canvasId>.png / .jpg, a name that   *)
(* holds the tab's identifier, so that the files of two tabs differ; the   *)
(* export leaves the canvas state unchanged, and no file is downloaded     *)
(* while no canvas instance exists.                                        *)
C20_ExportFormatAndFilename ==
  /\ [](lastDownload # Undef => fabricCanvasRef # 0)
  /\ [][/\ handleExportPNG => ExportsAs("png", R(1), ".png")
        /\ handleExportJPEG => ExportsAs("jpeg", Frac(19, 20), ".jpg")]_vars

\* tab 2 exported a JPEG of a canvas that holds an object
C20_Witness ==
  /\ canvasId = 2
  /\ lastDownload # Undef
  /\ Val(lastDownload).dataURL.format = "jpeg"
  /\ Val(lastDownload).filename = <<"thumbnail-", "canvas-", 2, ".jpg">>
  /\ canvas[fabricCanvasRef].objects # <<>>

(* C18: an uploaded image of width w > 0 and height h > 0 is added with   *)
(* one scale s for both dimensions, s = min(1280 / w, 720 / h): w * s <=   *)
(* 1280 and h * s <= 720 with equality in one dimension; and centred:      *)
(* left = (1280 - w * s) / 2 and top = (720 - h * s) / 2.                  *)
C18_UploadFitsAndIsCentered ==
  \A id \in DOMAIN heap :
    (/\ Role(id) = "upload"
     /\ RLt(R(0), heap[id].width)
     /\ RLt(R(0), heap[id].height))
    => LET o == heap[id]
           w == RMul(o.width, o.scale)
           h == RMul(o.height, o.scale)
       IN  /\ RLe(w, R(1280))
           /\ RLe(h, R(720))
           /\ w = R(1280) \/ h = R(720)
           /\ o.left = RDiv(RSub(R(1280), w), R(2))
           /\ o.top = RDiv(RSub(R(720), h), R(2))

\* a 400 x 900 upload is on the canvas, 320 x 720 on screen, 480 from the left
C18_Witness ==
  \E id \in DOMAIN heap :
    /\ Role(id) = "upload"
    /\ fabricCanvasRef # 0
    /\ id \in Range(canvas[fabricCanvasRef].objects)
    /\ heap[id].width = R(400)
    /\ heap[id].scale = Frac(4, 5)
    /\ heap[id].left = R(480)
    /\ heap[id].top = R(0)

\* a supplied value, or the default when the descriptor gives none
Given(o, default) == IF o = Undef THEN default ELSE Val(o)

\* the vertical centre of the nine-ball as the claim has it
ClaimedBallTop(d) ==
  LET radius == RDiv(Given(d.nineBallSize, R(250)), R(2))
  IN  IF d.logoTop = Undef THEN R(360)
      ELSE RAdd(Val(d.logoTop),
                RAdd(RMul(R(200), Given(d.logoSizeMultiplier, R(1))),
                     RAdd(Frac(525, 100), RAdd(radius, R(25)))))

(* C22: the vertical centre of the nine-ball and of its "9" is logoTop +   *)
(* 200 x logoSizeMultiplier (default 1) + 5.25 + radius + 15 + 10 when     *)
(* logoTop is given and 360 otherwise, with radius = nineBallSize / 2      *)
(* (default 250); it is the same for every size of the loaded logo and     *)
(* every order of the loads.                                               *)
C22_BallTopFromDescriptor ==
  \A id \in DOMAIN heap :
    Role(id) \in {"ball", "number"} =>
      /\ heap[id].top = ClaimedBallTop(Val(initialContent))
      /\ Role(id) = "ball" =>
           heap[id].radius =
             RDiv(Given(Val(initialContent).nineBallSize, R(250)), R(2))

\* the ball of a descriptor with logoTop 50 and multiplier 1.5 is on the
\* canvas at 505.25, after its logo has loaded
C22_Witness ==
  \E id \in DOMAIN heap :
    /\ Role(id) = "ball"
    /\ heap[id].top = Frac(2021, 4)
    /\ LogoId(Gen(id), 0) \in DOMAIN heap
    /\ fabricCanvasRef \in LiveCanvases
    /\ id \in Range(canvas[fabricCanvasRef].objects)

\* the factor k of the multi-logo case for the URL
ClaimedFactor(url) ==
  IF url = "/APA.png" THEN Frac(125, 100)
  ELSE IF url = "/barako.png" THEN Frac(95, 100)
  ELSE R(1)

\* the bound M of the claim for the logo
ClaimedMaxLogoWidth(d, id) ==
  IF Idx(id) = 0
    THEN RMul(R(200), Given(d.logoSizeMultiplier, R(1)))
    ELSE RMul(RMul(R(150), Given(d.logoSizeMultiplier, R(1))),
              ClaimedFactor(LogoUrlsOf(d)[Idx(id)]))

(* C24: a logo is scaled by one factor s = min(M / w, M / h): neither      *)
(* scaled dimension exceeds M and the larger one equals M, with M = 200 x  *)
(* logoSizeMultiplier (1 when absent) for a single logo, and M = 150 x     *)
(* multiplier x k for a logo of logoUrls, k = 1.25 for a URL containing    *)
(* "APA.png", 0.95 for one containing "barako.png" and 1 otherwise.        *)
C24_LogoFitsItsBound ==
  \A id \in DOMAIN heap :
    Role(id) = "logo" =>
      LET M == ClaimedMaxLogoWidth(Val(initialContent), id)
          w == ScaledWidth(heap[id])
          h == ScaledHeight(heap[id])
      IN  /\ RLe(w, M)
          /\ RLe(h, M)
          /\ w = M \/ h = M

\* a logo that is taller than wide has loaded in a group and a single logo
\* wider than tall has loaded with a multiplier
C24_Witness ==
  \E id \in DOMAIN heap :
    /\ Role(id) = "logo"
    /\ RLt(ScaledWidth(heap[id]), ScaledHeight(heap[id]))
    /\ \/ Idx(id) > 0 /\ LogoUrlsOf(Val(initialContent))[Idx(id)] = "/APA.png"
       \/ Idx(id) = 0 /\ Val(initialContent).logoSizeMultiplier # Undef

(* C26: in the multi-logo case the left-to-right order of the positioned   *)
(* logos is the order of logoUrls, for every completion order of the       *)
(* loads; only the z-order of the logos follows the completion order.      *)
C26_LogosInDescriptorOrder ==
  \A g \in Fired :
    AllPositioned(g) =>
      \A i, j \in 1..TotalLogos :
        i < j => RLt(heap[LogoId(g, i)].left, heap[LogoId(g, j)].left)

\* the logos are positioned, and a later logo of logoUrls lies below an
\* earlier one because it loaded first
C26_Witness ==
  \E g \in Fired :
    /\ AllPositioned(g)
    /\ \E c \in LiveCanvases :
         \E p, q \in DOMAIN canvas[c].objects :
           /\ p < q
           /\ Role(canvas[c].objects[p]) = "logo"
           /\ Role(canvas[c].objects[q]) = "logo"
           /\ Gen(canvas[c].objects[p]) = g
           /\ Gen(canvas[c].objects[q]) = g
           /\ Idx(canvas[c].objects[p]) > Idx(canvas[c].objects[q])

\* the English ordinal suffix of n
ClaimedSuffix(n) ==
  IF n % 100 \in {11, 12, 13} THEN "th"
  ELSE IF n % 10 = 1 THEN "st"
  ELSE IF n % 10 = 2 THEN "nd"
  ELSE IF n % 10 = 3 THEN "rd"
  ELSE "th"

(* C23: getOrdinalSuffix returns the correct English ordinal for every day *)
(* of the month 1..31 and every n in 0..199: st for numbers ending in 1,   *)
(* nd for 2, rd for 3, th for all others and for numbers whose last two    *)
(* digits are 11, 12 or 13.                                                *)
C23_OrdinalSuffix ==
  /\ \A n \in 0..MaxDay : getOrdinalSuffix(n) = <<n, ClaimedSuffix(n)>>
  /\ formattedDate # Undef =>
       \E n \in 0..MaxDay :
         Val(formattedDate) = <<n, ClaimedSuffix(n)>>

\* the dates 21st and 112th have been formatted
C23_Witness ==
  \/ day = 21 /\ formattedDate = Some(<<21, "st">>)
  \/ day = 112 /\ formattedDate = Some(<<112, "th">>)

\* the canvases of the tabs that are alive
TabCanvases(t) ==
  {i \in 1..Len(editors[t].canvas) : ~editors[t].canvas[i].disposed}

\* every tab's editor is mounted
TabsMounted == \A t \in Tabs : editors[t].phase = "mounted"

(* C21: one canvas per tab for the whole session.  The active tab is tab 1 *)
(* at first and exactly one tab is visible at any time; once the editors   *)
(* are mounted they stay mounted, each with the one canvas its mount       *)
(* created; a tab switch changes the visible tab and nothing of any        *)
(* editor: no canvas is created, disposed or re-initialized and no object  *)
(* list changes.                                                           *)
C21_OneCanvasPerTab ==
  /\ activeTab = 1
  /\ [](/\ Cardinality({t \in Tabs : Visible(t)}) = 1
        /\ TabsMounted
             => \A t \in Tabs : /\ Len(editors[t].canvas) = 1
                                /\ TabCanvases(t) = {1}
                                /\ editors[t].fabricCanvasRef = 1)
  /\ [][/\ TabsMounted => TabsMounted'
        /\ activeTab' # activeTab
             => /\ editors' = editors
                /\ Cardinality({t \in Tabs : activeTab' = t}) = 1]_vars

\* tab 1 holds a text the user added and tab 2 is the one shown
C21_Witness ==
  /\ TabsMounted
  /\ activeTab = 2
  /\ UserTextId(1) \in Range(editors[1].canvas[1].objects)
  /\ editors[1].timers = <<>>

(* C25: a Delete or Backspace key press removes an object from at most one *)
(* canvas, the canvas of the visible tab; the canvases of the hidden tabs  *)
(* keep their objects and their selection.  Every mounted editor has its   *)
(* own listener on the window, and none of them looks at the visibility.   *)
C25_KeyDeletesInVisibleTabOnly ==
  [][TabKeyDown
     => \A t \in Tabs : ~Visible(t) => editors'[t] = editors[t]]_vars

\* the canvas of the editor is as Clear left it and the user has added
\* nothing: only Clear gives a canvas created in another colour ClearColor
ClearedAndUntouched ==
  /\ fabricCanvasRef # 0
  /\ InitialBackground # ClearColor
  /\ canvas[fabricCanvasRef].backgroundColor = ClearColor
  /\ canvas[fabricCanvasRef].objects = <<>>
  /\ nextUser = 0

(* C27: after Clear the object list of the canvas stays empty until the    *)
(* user adds something: the completion of a background image load that the *)
(* initialization started leaves a cleared canvas empty.  The load handler *)
(* of the code adds the image to the canvas fabricCanvasRef holds,         *)
(* whatever Clear did to it.                                               *)
C27_ClearedCanvasStaysEmpty ==
  [][(BgLoaded /\ ClearedAndUntouched)
     => canvas'[fabricCanvasRef].objects = <<>>]_vars

(* C28: the scale handleResize computes is in the range 0 < scale <= 1    *)
(* for every container width, the width 0 of a hidden tab and the widths   *)
(* below the 32 px padding included, so that every step of handleResize    *)
(* leaves the canvas element with a CSS width and height above 0 that it   *)
(* computed from a positive scale.  The code has no lower bound: for the   *)
(* width 0 the scale is -32 / 1280.                                        *)
C28_ScaleIsPositive ==
  [][\A w \in ContainerWidths :
       (phase = "mounted" /\ handleResize(EffectCanvas, w))
       => /\ RLt(R(0), ResizeScale(w))
          /\ RLe(ResizeScale(w), R(1))
          /\ style' # Undef
          /\ RLt(R(0), Val(style')[1])
          /\ RLt(R(0), Val(style')[2])]_vars

Next ==
  \/ Mount
  \/ Remount
  \/ Unmount
  \/ InitTimer
  \/ BgLoaded
  \/ MultiLogoLoaded
  \/ SingleLogoLoaded
  \/ YoutubeLogoLoaded
  \/ NineBallLogoSettled
  \/ LoadFailed

Spec == Init /\ [][Next]_vars

\* the initial content of the editors the user works on: a text over a
\* background colour and a background image
DPlain ==
  [Descriptor EXCEPT !.texts = Some(<<TextEntry("Bare")>>),
     !.backgroundColor = Some("#0066CC"),
     !.backgroundImageUrl = Some("/dark-purple-pattern.svg")]

\* a tab's editor with initial content, a bare tab's editor, the legacy editor
InitEdit ==
  /\ \/ /\ component = "SingleThumbnailEditor"
        /\ canvasId = 1
        /\ initialContent = Some(DPlain)
     \/ /\ component = "SingleThumbnailEditor"
        /\ canvasId = 2
        /\ initialContent = Undef
     \/ /\ component = "ThumbnailEditor"
        /\ canvasId = 0
        /\ initialContent = Undef
  /\ images = WideFiles
  /\ InitialState
  /\ NoTabs

\* selecting, deleting and clearing on an editor that mounts and re-mounts
NextSelect ==
  \/ Mount
  \/ Remount
  \/ Unmount
  \/ InitTimer
  \/ BgLoaded
  \/ LoadFailed
  \/ SetIsLoaded
  \/ Select
  \/ Deselect
  \/ SetText
  \/ AddTextButton
  \/ EnterInTextInput
  \/ KeyDown
  \/ handleDelete
  \/ handleClear

SpecSelect == InitEdit /\ [][NextSelect]_vars

\* the text panel on an editor that mounts once
NextText ==
  \/ Mount
  \/ Unmount
  \/ InitTimer
  \/ BgLoaded
  \/ LoadFailed
  \/ SetIsLoaded
  \/ Select
  \/ SetText
  \/ SetFontSize
  \/ SetFontFamily
  \/ SetTextColor
  \/ AddTextButton
  \/ EnterInTextInput

SpecText == InitEdit /\ [][NextText]_vars

\* resizes and exports between edits, mounts and re-mounts
NextView ==
  \/ Mount
  \/ Remount
  \/ Unmount
  \/ InitTimer
  \/ BgLoaded
  \/ LoadFailed
  \/ SetIsLoaded
  \/ SetText
  \/ AddTextButton
  \/ handleClear
  \/ ResizeTimer
  \/ WindowResize
  \/ handleExportPNG
  \/ handleExportJPEG

SpecView == InitEdit /\ [][NextView]_vars

\* image uploads on an editor that mounts and re-mounts
NextUpload ==
  \/ Mount
  \/ Remount
  \/ Unmount
  \/ InitTimer
  \/ BgLoaded
  \/ LoadFailed
  \/ SetIsLoaded
  \/ Select
  \/ handleDelete
  \/ handleImageUpload
  \/ ReaderLoaded
  \/ UploadLoaded
  \/ UploadFailed

SpecUpload == InitEdit /\ [][NextUpload]_vars

====
